---- MODULE Spec2Model ----
(***************************************************************************)
(* The streaming session engine of the research canvas                     *)
(* (frontend/app/dashboard/explore/[projectId]/page.tsx, CanvasPage):      *)
(* React state `messages` / `streaming`, the mount effect loadHistory, the *)
(* frame decoder processStreamWith, the reducer handleSSEEvent, the        *)
(* controller sendMessage and the write-behind persistMessage.             *)
(*                                                                         *)
(* Strings are sequences of tokens, so that concatenation, the empty       *)
(* string and truthiness are those of the code.  An optional field         *)
(* (content?, chips?, paper?) is a sequence of length 0 (undefined) or 1.  *)
(***************************************************************************)
EXTENDS Integers, Sequences, FiniteSets, TLC

\* ---------------------------------------------------------------- bounds
MaxSends  == 2   \* sendMessage calls that pass the guard, per run
SpecSends == 1   \* ... in a run of Spec
MaxEvents == 4   \* events the backend streams of one run carry, all streams together
SpecEvents == 2  \* ... in a run of Spec and of StoreSpec
MaxChunk  == 1   \* events one transport chunk carries
MaxClock  == 1   \* Date.now() returns values in 0..MaxClock
MaxMounts == 2   \* times the view is opened on the same project
StoreSends == 1  \* sendMessage calls that pass the guard, in a run with the store
MaxPieces == 3   \* line fragments a response body given to the decoder is made of
FairEvents == 1  \* events the streams of a run with fair transports carry, all together
MaxRows == 2     \* rows of a stored history that is opened again and again

\* ------------------------------------------------------- optional values
None == << >>
Some(x) == << x >>
OrEmpty(o) == IF o = None THEN << >> ELSE o[1]      \* (o ?? '')
Truthy(o) == o # None /\ o[1] # << >>                \* if (o) for a string

\* ------------------------------------------------------------ fixed text
FailedText == << "Failed to reach the backend." >>
DefaultGreeting == << "Hi! I'm **Saraswati**, your research guide. What would you like to explore today?" >>
DefaultChips == << "I'm a beginner", "Show top papers", "I know the basics", "Go deep" >>

\* ------------------------------------------------------------------- ids
\* `${prefix}_${t}_${n}` ; n = 0 stands for an id built without the counter
\* (the counter starts at 1), so two ids are equal exactly when the strings are.
Id(p, t, n) == [p |-> p, t |-> t, n |-> n]
NoId == Id("none", 0, 0)

Msg(id, type, content, chips, paper) ==
    [id |-> id, type |-> type, content |-> content, chips |-> chips, paper |-> paper]

\* ---------------------------------------------------------------- inputs
Whitespace == { " " }
UserTexts == { << >>, << " " >>, << "hi" >> }        \* text of a sendMessage call
\* a guard that tests the text as it is
Untrimmed(text) == text
Trimmed(text) == SelectSeq(text, LAMBDA c : c \notin Whitespace)   \* text.trim() is empty iff this is

Event(type, content, chips, paper) ==
    [type |-> type, content |-> content, chips |-> chips, paper |-> paper]
\* what the backend may put in one `data: ` frame
Events ==
    { Event("text", Some(<< "a" >>), None, None),
      Event("status", Some(<< "s" >>), None, None),
      Event("paper_artifact", None, None, Some("P1")),
      Event("suggestion_chips", None, Some(<< "c1", "c2" >>), None),
      Event("error", Some(<< "e" >>), None, None) }

RECURSIVE SeqsUpTo(_, _)
SeqsUpTo(S, n) ==
    IF n = 0 THEN { << >> }
    ELSE LET shorter == SeqsUpTo(S, n - 1)
         IN  shorter \cup { Append(s, x) : s \in { t \in shorter : Len(t) = n - 1 }, x \in S }

VARIABLES
    messages,   \* useState<Message[]>: the conversation, all queued updates applied
    streaming,  \* useState(false): the flag, all queued updates applied
    seen,       \* [messages, streaming] captured by the closures of the last committed render
    deferred,   \* persistMessage calls made by a queued setMessages updater, run at the next render
    load,       \* loadHistory: "fetch" | "greeting" | "read" | "done"
    greet,      \* [id, n]: assistantId of the greeting and the events it has delivered
    sends,      \* one record per sendMessage invocation that passed the guard (n, made, text
                \* and at are bookkeeping: events read, entries and text they brought, and
                \* the length of the conversation when the call was made)
    writes,     \* persistMessage calls, in call order
    pending,    \* indices of writes whose POST is in flight
    rows,       \* the project's stored rows, in sequence order
    clock,      \* the latest value Date.now() returned
    uidCounter, \* let _uid
    mount,      \* how many times the view has been opened
    prev,       \* the conversation of the previous mount when it was closed
    respBody,   \* decoder: the byte stream of the response body
    pos,        \* decoder: bytes read so far
    dec,        \* decoder: [pend, buffer, out] of processStreamWith
    mounted,    \* the view is on screen (CanvasPage is mounted)
    input       \* useState(''): the text of the message box

vars == << messages, streaming, seen, deferred, load, greet, sends, writes,
           pending, rows, clock, uidCounter, mount, prev, respBody, pos, dec, mounted, input >>

\* ================================================================ reducer
\* a reducer whose text event opens an assistant entry when none carries the id
handleSSEEventOpening(s, event, assistantMsgId, t) ==
    CASE event.type = "text" ->
           IF \E i \in 1..Len(s.m) : s.m[i].id = assistantMsgId
           THEN [s EXCEPT !.m = [i \in 1..Len(s.m) |->
                    IF s.m[i].id = assistantMsgId
                    THEN [s.m[i] EXCEPT !.content = Some(OrEmpty(@) \o OrEmpty(event.content))]
                    ELSE s.m[i]]]
           ELSE [s EXCEPT !.m = Append(s.m, Msg(assistantMsgId, "assistant", event.content, None, None))]
      [] event.type = "status" ->
           [m |-> Append(s.m, Msg(Id("status", t, s.u + 1), "status", event.content, None, None)),
            u |-> s.u + 1]
      [] event.type = "paper_artifact" ->
           [m |-> Append(s.m, Msg(Id("paper", t, s.u + 1), "paper_artifact", None, None, event.paper)),
            u |-> s.u + 1]
      [] event.type = "suggestion_chips" ->
           [m |-> Append(s.m, Msg(Id("chips", t, s.u + 1), "chips", None, event.chips, None)),
            u |-> s.u + 1]
      [] event.type = "error" ->
           [m |-> Append(s.m, Msg(Id("err", t, s.u + 1), "error", event.content, None, None)),
            u |-> s.u + 1]
      [] OTHER -> s

\* a reducer whose error event turns the stream's assistant entry into the error entry
handleSSEEventErrorCloses(s, event, assistantMsgId, t) ==
    CASE event.type = "text" ->
           [s EXCEPT !.m = [i \in 1..Len(s.m) |->
               IF s.m[i].id = assistantMsgId
               THEN [s.m[i] EXCEPT !.content = Some(OrEmpty(@) \o OrEmpty(event.content))]
               ELSE s.m[i]]]
      [] event.type = "status" ->
           [m |-> Append(s.m, Msg(Id("status", t, s.u + 1), "status", event.content, None, None)),
            u |-> s.u + 1]
      [] event.type = "paper_artifact" ->
           [m |-> Append(s.m, Msg(Id("paper", t, s.u + 1), "paper_artifact", None, None, event.paper)),
            u |-> s.u + 1]
      [] event.type = "suggestion_chips" ->
           [m |-> Append(s.m, Msg(Id("chips", t, s.u + 1), "chips", None, event.chips, None)),
            u |-> s.u + 1]
      [] event.type = "error" ->
           [s EXCEPT !.m = [i \in 1..Len(s.m) |->
               IF s.m[i].id = assistantMsgId
               THEN [s.m[i] EXCEPT !.type = "error", !.content = event.content]
               ELSE s.m[i]]]
      [] OTHER -> s

\* handleSSEEvent applied to state s = [m |-> messages, u |-> _uid] at time t
handleSSEEvent(s, event, assistantMsgId, t) ==
    CASE event.type = "text" ->
           [s EXCEPT !.m = [i \in 1..Len(s.m) |->
               IF s.m[i].id = assistantMsgId
               THEN [s.m[i] EXCEPT !.content = Some(OrEmpty(@) \o OrEmpty(event.content))]
               ELSE s.m[i]]]
      [] event.type = "status" ->
           [m |-> Append(s.m, Msg(Id("status", t, s.u + 1), "status", event.content, None, None)),
            u |-> s.u + 1]
      [] event.type = "paper_artifact" ->
           [m |-> Append(s.m, Msg(Id("paper", t, s.u + 1), "paper_artifact", None, None, event.paper)),
            u |-> s.u + 1]
      [] event.type = "suggestion_chips" ->
           [m |-> Append(s.m, Msg(Id("chips", t, s.u + 1), "chips", None, event.chips, None)),
            u |-> s.u + 1]
      [] event.type = "error" ->
           [m |-> Append(s.m, Msg(Id("err", t, s.u + 1), "error", event.content, None, None)),
            u |-> s.u + 1]
      [] OTHER -> s

\* the events of one chunk, in line order (the for loop of processStreamWith)
RECURSIVE ApplyEvents(_, _, _, _)
ApplyEvents(s, evs, assistantMsgId, t) ==
    IF evs = << >> THEN s
    ELSE ApplyEvents(handleSSEEvent(s, Head(evs), assistantMsgId, t), Tail(evs), assistantMsgId, t)

\* a tracking handler that pushes the kind without the payload
RECURSIVE TrackedBare(_)
TrackedBare(evs) ==
    IF evs = << >> THEN << >>
    ELSE LET e == Head(evs)
         IN  (CASE e.type = "paper_artifact" -> << [type |-> "paper_artifact", content |-> << >>,
                                                   metadata |-> [chips |-> << >>, paper |-> << >>]] >>
                [] e.type = "suggestion_chips" -> << [type |-> "chips", content |-> << >>,
                                                     metadata |-> [chips |-> << >>, paper |-> << >>]] >>
                [] OTHER -> << >>) \o TrackedBare(Tail(evs))

\* newMsgs.push(...) of trackingHandler, for the events of one chunk
NoMeta == [chips |-> None, paper |-> None]     \* metadata undefined
Write(type, content, metadata) == [type |-> type, content |-> content, metadata |-> metadata]
RECURSIVE Tracked(_)
Tracked(evs) ==
    IF evs = << >> THEN << >>
    ELSE LET e == Head(evs)
         IN  (CASE e.type = "paper_artifact" ->
                      << Write("paper_artifact", None, [chips |-> None, paper |-> e.paper]) >>
                [] e.type = "suggestion_chips" ->
                      << Write("chips", None, [chips |-> e.chips, paper |-> None]) >>
                [] OTHER -> << >>) \o Tracked(Tail(evs))

\* ============================================================ persistence
\* persistMessage(...) called for each of ws: the calls are logged (with the exchange
\* `by` that made them, 0 for none) and their POSTs are in flight
Logged(ws, by) == [k \in 1..Len(ws) |-> [type |-> ws[k].type, content |-> ws[k].content,
                                          metadata |-> ws[k].metadata, by |-> by]]
Issue(logged) ==
    /\ writes' = writes \o logged
    /\ pending' = pending \cup (Len(writes) + 1 .. Len(writes) + Len(logged))

\* the POST of write w reaches the store, which gives the row the next sequence id
\* (`by` is bookkeeping: the exchange whose write it was, 0 for an earlier session)
PersistArrive(w) ==
    /\ w \in pending
    /\ pending' = pending \ { w }
    /\ rows' = Append(rows, [id |-> Len(rows) + 1, msg_type |-> writes[w].type,
                             content |-> writes[w].content, metadata |-> writes[w].metadata,
                             by |-> writes[w].by])
    /\ UNCHANGED << messages, streaming, seen, deferred, load, greet, sends, writes,
                    clock, uidCounter, mount, prev, respBody, pos, dec, mounted, input >>

\* a failed write that shows up in the conversation
PersistFailSurfaced(w) ==
    /\ w \in pending
    /\ pending' = pending \ { w }
    /\ messages' = Append(messages, Msg(Id("err", 0, 0), "error", Some(FailedText), None, None))
    /\ UNCHANGED << streaming, seen, deferred, load, greet, sends, writes, rows,
                    clock, uidCounter, mount, prev, respBody, pos, dec, mounted, input >>

\* getSession or fetch throws inside persistMessage: caught, logged, nothing else
PersistFail(w) ==
    /\ w \in pending
    /\ pending' = pending \ { w }
    /\ UNCHANGED << messages, streaming, seen, deferred, load, greet, sends, writes, rows,
                    clock, uidCounter, mount, prev, respBody, pos, dec, mounted, input >>

\* ========================================================== frame decoder
\* Bytes are one-character strings; "C3" "A9" are the two bytes of U+00E9, which
\* TextDecoder gives as the character "E9", and "FFFD" is the replacement character.
Prefix == << "d", "a", "t", "a", ":", " " >>          \* 'data: '

\* decoder.decode(value, { stream: true }): pend is the lead byte kept between calls
RECURSIVE Utf8(_, _, _)
Utf8(pend, bytes, acc) ==
    IF bytes = << >> THEN [chars |-> acc, pend |-> pend]
    ELSE LET b == Head(bytes)
         IN  IF pend # << >>
             THEN IF b = "A9" THEN Utf8(<< >>, Tail(bytes), Append(acc, "E9"))
                              ELSE Utf8(<< >>, bytes, Append(acc, "FFFD"))
             ELSE IF b = "C3" THEN Utf8(<< "C3" >>, Tail(bytes), acc)
             ELSE IF b = "A9" THEN Utf8(<< >>, Tail(bytes), Append(acc, "FFFD"))
             ELSE Utf8(<< >>, Tail(bytes), Append(acc, b))

\* buffer.split('\n'): one more line than there are newlines
RECURSIVE SplitLines(_, _, _)
SplitLines(chars, cur, lines) ==
    IF chars = << >> THEN Append(lines, cur)
    ELSE IF Head(chars) = "\n" THEN SplitLines(Tail(chars), << >>, Append(lines, cur))
    ELSE SplitLines(Tail(chars), Append(cur, Head(chars)), lines)

StartsWith(line, pre) == Len(line) >= Len(pre) /\ SubSeq(line, 1, Len(pre)) = pre

RECURSIVE Strip(_)
Strip(p) ==
    IF p # << >> /\ Head(p) = " " THEN Strip(Tail(p))
    ELSE IF p # << >> /\ p[Len(p)] = " " THEN Strip(SubSeq(p, 1, Len(p) - 1))
    ELSE p

\* JSON.parse on the values these bytes can spell: a number (digits) or a string
\* literal (q ... q); anything else throws, which is None here
JsonParse(payload) ==
    LET p == Strip(payload)
    IN  IF p # << >> /\ \A k \in 1..Len(p) : p[k] = "1"
        THEN Some([json |-> "number", value |-> p])
        ELSE IF /\ Len(p) >= 2 /\ p[1] = "q" /\ p[Len(p)] = "q"
                /\ \A k \in 2..Len(p) - 1 : p[k] # "q"
        THEN Some([json |-> "string", value |-> SubSeq(p, 2, Len(p) - 1)])
        ELSE None

\* a loop that a line without the prefix or with a payload that does not parse ends
RECURSIVE DeliverUntilMalformed(_)
DeliverUntilMalformed(lines) ==
    IF lines = << >> THEN << >>
    ELSE LET line == Head(lines)
             event == IF StartsWith(line, Prefix)
                      THEN JsonParse(SubSeq(line, Len(Prefix) + 1, Len(line)))
                      ELSE None
         IN  IF event = None THEN << >> ELSE event \o DeliverUntilMalformed(Tail(lines))

\* for (const line of lines): the events handed to the handler, in line order
RECURSIVE Deliver(_)
Deliver(lines) ==
    IF lines = << >> THEN << >>
    ELSE (IF StartsWith(Head(lines), Prefix)
          THEN JsonParse(SubSeq(Head(lines), Len(Prefix) + 1, Len(Head(lines))))
          ELSE << >>) \o Deliver(Tail(lines))

\* a decoder that parses whole chunks and keeps nothing between them
KeptNothing(lines) == << >>

\* what remains in `buffer` after a chunk: lines.pop()
Kept(lines) == lines[Len(lines)]

\* one turn of the while loop of processStreamWith on a chunk
Feed(d, chunk) ==
    LET u == Utf8(d.pend, chunk, << >>)
        lines == SplitLines(d.buffer \o u.chars, << >>, << >>)
    IN  [pend |-> u.pend,
         buffer |-> Kept(lines),
         out |-> d.out \o Deliver(SubSeq(lines, 1, Len(lines) - 1)),
         cut |-> d.cut \cup (IF u.pend # << >> THEN { "char" } ELSE { })
                       \cup (IF lines[Len(lines)] # << >> THEN { "line" } ELSE { }),
         done |-> FALSE]

\* `cut` is bookkeeping: whether a chunk has ended inside a character or inside a line
Fresh == [pend |-> << >>, buffer |-> << >>, out |-> << >>, cut |-> { }, done |-> FALSE]

\* reader.read() resolves with the next k bytes of the body
ReadChunk(k) ==
    /\ ~dec.done
    /\ k \in 1..(Len(respBody) - pos)
    /\ dec' = Feed(dec, SubSeq(respBody, pos + 1, pos + k))
    /\ pos' = pos + k
    /\ UNCHANGED << respBody, messages, streaming, seen, deferred, load, greet, sends, writes,
                    pending, rows, clock, uidCounter, mount, prev, mounted, input >>

\* an end of stream that parses what the buffer still holds
ReadDoneFlushing ==
    /\ ~dec.done
    /\ pos = Len(respBody)
    /\ dec' = [dec EXCEPT !.done = TRUE, !.out = @ \o Deliver(<< dec.buffer >>)]
    /\ UNCHANGED << respBody, pos, messages, streaming, seen, deferred, load, greet, sends, writes,
                    pending, rows, clock, uidCounter, mount, prev, mounted, input >>

\* reader.read() resolves with done
ReadDone ==
    /\ ~dec.done
    /\ pos = Len(respBody)
    /\ dec' = [dec EXCEPT !.done = TRUE]
    /\ UNCHANGED << respBody, pos, messages, streaming, seen, deferred, load, greet, sends, writes,
                    pending, rows, clock, uidCounter, mount, prev, mounted, input >>

\* the line fragments response bodies are made of
Pieces ==
    { Prefix \o << "q", "C3", "A9", "q", "\n" >>,     \* data: "e-acute"
      Prefix \o << "1", "\n" >>,                      \* data: 1
      Prefix \o << "q", "1", "\n" >>,                 \* prefixed, not JSON
      << ":", "1", "\n" >>,                           \* a comment line
      Prefix \o << "1" >>,                            \* a frame without its newline
      << "\n" >>,
      << "C3" >> }                                    \* a lone lead byte

RECURSIVE Flatten(_)
Flatten(ps) == IF ps = << >> THEN << >> ELSE Head(ps) \o Flatten(Tail(ps))
Bodies == { Flatten(ps) : ps \in SeqsUpTo(Pieces, MaxPieces) }

\* ================================================================= render
RECURSIVE SumN(_)
SumN(ss) == IF ss = << >> THEN 0 ELSE Head(ss).n + SumN(Tail(ss))
\* events delivered so far, by the greeting and the chat streams
Delivered == greet.n + SumN(sends)

Current == [messages |-> messages, streaming |-> streaming]

\* React commits a render: the closures of the handlers see the current state, and the
\* queued setMessages updater of sendMessage's finally runs its persistMessage call
Render ==
    /\ seen # Current \/ deferred # << >>
    /\ seen' = Current
    /\ deferred' = << >>
    /\ Issue(deferred)
    /\ UNCHANGED << messages, streaming, load, greet, sends, rows, clock, uidCounter,
                    mount, prev, respBody, pos, dec, mounted, input >>

\* onChange of the message box, which is disabled while the render shows streaming
setInput(value) ==
    /\ ~seen.streaming
    /\ input' = value
    /\ UNCHANGED << messages, streaming, seen, deferred, load, greet, sends, writes, pending,
                    rows, clock, uidCounter, mount, prev, respBody, pos, dec, mounted >>

\* ============================================================ loadHistory
\* a mapping whose ids depend on the mount that made them
RestoredStamped(rs) ==
    [k \in 1..Len(rs) |->
        Msg(Id("db", rs[k].id, mount), rs[k].msg_type, rs[k].content,
            IF rs[k].msg_type = "chips" THEN rs[k].metadata.chips ELSE None,
            IF rs[k].msg_type = "paper_artifact" THEN rs[k].metadata.paper ELSE None)]

\* a mapping that gives the rows last first
RestoredBackwards(rs) ==
    [k \in 1..Len(rs) |->
        LET r == rs[Len(rs) + 1 - k]
        IN  Msg(Id("db", r.id, 0), r.msg_type, r.content,
                IF r.msg_type = "chips" THEN r.metadata.chips ELSE None,
                IF r.msg_type = "paper_artifact" THEN r.metadata.paper ELSE None)]

\* rows.map(row => ({ id: `db_${row.id}`, type: row.msg_type, ... }))
Restored(rs) ==
    [k \in 1..Len(rs) |->
        Msg(Id("db", rs[k].id, 0), rs[k].msg_type, rs[k].content,
            IF rs[k].msg_type = "chips" THEN rs[k].metadata.chips ELSE None,
            IF rs[k].msg_type = "paper_artifact" THEN rs[k].metadata.paper ELSE None)]

\* the history fetch resolves with one or more rows
LoadHistoryRestored ==
    /\ load = "fetch"
    /\ Len(rows) > 0
    /\ messages' = Restored(rows)
    /\ load' = "done"
    /\ UNCHANGED << streaming, seen, deferred, greet, sends, writes, pending, rows, clock,
                    uidCounter, mount, prev, respBody, pos, dec, mounted, input >>

\* the history fetch resolves with zero rows, or getSession / fetch / resp.ok / json fails:
\* the greeting request is opened
LoadHistoryNone(failed, now) ==
    /\ load = "fetch"
    /\ failed \/ Len(rows) = 0
    /\ streaming' = TRUE
    /\ greet' = [id |-> Id("msg", now, 0), n |-> 0]
    /\ messages' = << Msg(Id("msg", now, 0), "assistant", Some(<< >>), None, None) >>
    /\ load' = "greeting"
    /\ clock' = now
    /\ UNCHANGED << seen, deferred, sends, writes, pending, rows, uidCounter,
                    mount, prev, respBody, pos, dec, mounted, input >>

\* the greeting fetch resolves; without a body processStreamWith returns at once
GreetingResponse(body) ==
    /\ load = "greeting"
    /\ IF body THEN load' = "read" /\ UNCHANGED streaming
               ELSE load' = "done" /\ streaming' = FALSE
    /\ UNCHANGED << messages, seen, deferred, greet, sends, writes, pending, rows, clock,
                    uidCounter, mount, prev, respBody, pos, dec, mounted, input >>

\* one chunk of the greeting stream: its events go through handleSSEEvent
GreetingChunk(evs, now) ==
    /\ load = "read"
    /\ evs # << >>
    /\ Delivered + Len(evs) <= MaxEvents
    /\ clock' = now
    /\ LET s == ApplyEvents([m |-> messages, u |-> uidCounter], evs, greet.id, now)
       IN  messages' = s.m /\ uidCounter' = s.u
    /\ greet' = [greet EXCEPT !.n = @ + Len(evs)]
    /\ UNCHANGED << streaming, seen, deferred, load, sends, writes, pending, rows,
                    mount, prev, respBody, pos, dec, mounted, input >>

\* reader.read() reports done
GreetingEnd ==
    /\ load = "read"
    /\ load' = "done"
    /\ streaming' = FALSE
    /\ UNCHANGED << messages, seen, deferred, greet, sends, writes, pending, rows, clock,
                    uidCounter, mount, prev, respBody, pos, dec, mounted, input >>

\* a fallback that also shows the failure
FallbackWithError(assistantId) ==
    << Msg(assistantId, "assistant", Some(DefaultGreeting), None, None),
       Msg(Id("chips", 0, 0), "chips", None, Some(DefaultChips), None),
       Msg(Id("err", 0, 0), "error", Some(FailedText), None, None) >>

\* the list the catch of the greeting sets: the default greeting and 'chips_0'
Fallback(assistantId) ==
    << Msg(assistantId, "assistant", Some(DefaultGreeting), None, None),
       Msg(Id("chips", 0, 0), "chips", None, Some(DefaultChips), None) >>

\* the greeting fetch rejects or a read fails: the client-side fallback greeting
GreetingFail ==
    /\ load \in { "greeting", "read" }
    /\ messages' = Fallback(greet.id)
    /\ load' = "done"
    /\ streaming' = FALSE
    /\ UNCHANGED << seen, deferred, greet, sends, writes, pending, rows, clock,
                    uidCounter, mount, prev, respBody, pos, dec, mounted, input >>

\* ============================================================ sendMessage
\* messages.filter(user | assistant).map({ role, content }) over the closure's messages
History(ms) ==
    LET kept == SelectSeq(ms, LAMBDA m : m.type \in { "user", "assistant" })
    IN  [k \in 1..Len(kept) |->
            [role |-> IF kept[k].type = "user" THEN "user" ELSE "assistant",
             content |-> OrEmpty(kept[k].content)]]

Types(evs) == [k \in 1..Len(evs) |-> evs[k].type]

\* the text the text events of evs carry, in order
RECURSIVE TextOf(_)
TextOf(evs) ==
    IF evs = << >> THEN << >>
    ELSE (IF Head(evs).type = "text" THEN OrEmpty(Head(evs).content) ELSE << >>) \o TextOf(Tail(evs))

\* current.find(m => m.id === assistantId): the first entry with that id, as a 0/1 sequence
Find(ms, id) ==
    LET hits == SelectSeq(ms, LAMBDA m : m.id = id)
    IN  IF hits = << >> THEN None ELSE Some(Head(hits))

\* `if (aiMsg?.content) void persistMessage('assistant', aiMsg.content)` on conversation ms
AssistantWrite(ms, assistantId) ==
    LET aiMsg == Find(ms, assistantId)
    IN  IF aiMsg # None /\ Truthy(aiMsg[1].content)
        THEN << Write("assistant", aiMsg[1].content, NoMeta) >>
        ELSE << >>

\* the catch of sendMessage
Failed(ms, assistantId) ==
    [k \in 1..Len(ms) |->
        IF ms[k].id = assistantId
        THEN [ms[k] EXCEPT !.type = "error", !.content = Some(FailedText)]
        ELSE ms[k]]

\* a finally that leaves the flag as it is
NotCleared(flag) == flag

\* the flag after the finally of sendMessage
Cleared(flag) == FALSE

\* a sendMessage call: the guard, and for a call that passes it everything up to the
\* first await (the message box is cleared); React then commits the render of the
\* click / key event
sendMessage(text, now) ==
    IF Trimmed(text) = << >> \/ seen.streaming
    THEN UNCHANGED vars
    ELSE /\ Len(sends) < MaxSends
         /\ streaming' = TRUE
         /\ messages' = messages \o
               << Msg(Id("user", now, 0), "user", Some(text), None, None),
                  Msg(Id("ai", now, 0), "assistant", Some(<< >>), None, None) >>
         /\ sends' = Append(sends, [pc |-> "session", aid |-> Id("ai", now, 0),
                                    newMsgs |-> << >>, n |-> 0, made |-> << >>, text |-> << >>,
                                    message |-> text, history |-> History(seen.messages),
                                    at |-> Len(messages)])
         /\ Issue(Logged(<< Write("user", Some(text), NoMeta) >>, Len(sends) + 1) \o deferred)
         /\ deferred' = << >>
         /\ seen' = [messages |-> messages', streaming |-> TRUE]
         /\ clock' = now
         /\ input' = << >>
         /\ UNCHANGED << load, greet, rows, uidCounter, mount, prev, respBody, pos, dec, mounted >>

\* supabase.auth.getSession() resolves and the chat request is opened
SendSession(i) ==
    /\ sends[i].pc = "session"
    /\ sends' = [sends EXCEPT ![i].pc = "fetch"]
    /\ UNCHANGED << messages, streaming, seen, deferred, load, greet, writes, pending, rows,
                    clock, uidCounter, mount, prev, respBody, pos, dec, mounted, input >>

\* the finally of invocation i, on the conversation ms the catch (if any) left
Finally(i, ms) ==
    LET eager == /\ ms = messages /\ ~streaming /\ seen = Current /\ deferred = << >>
        ai == Logged(AssistantWrite(ms, sends[i].aid), i)
        tracked == Logged(sends[i].newMsgs, i)
    IN  /\ messages' = ms
        /\ streaming' = Cleared(streaming)
        /\ sends' = [sends EXCEPT ![i].pc = "done", ![i].newMsgs = << >>, ![i].history = << >>]
        /\ IF eager
           THEN Issue(ai \o tracked) /\ UNCHANGED deferred
           ELSE Issue(tracked) /\ deferred' = deferred \o ai
        /\ UNCHANGED << seen, load, greet, rows, clock, uidCounter, mount, prev,
                        respBody, pos, dec, mounted, input >>

\* the chat fetch resolves; without a body processStreamWith returns at once
SendResponse(i, body) ==
    /\ sends[i].pc = "fetch"
    /\ IF body
       THEN /\ sends' = [sends EXCEPT ![i].pc = "read"]
            /\ UNCHANGED << messages, streaming, seen, deferred, load, greet, writes, pending,
                            rows, clock, uidCounter, mount, prev, respBody, pos, dec, mounted, input >>
       ELSE Finally(i, messages)

\* one chunk of the chat stream: its events go through trackingHandler
SendChunk(i, evs, now) ==
    /\ sends[i].pc = "read"
    /\ evs # << >>
    /\ Delivered + Len(evs) <= MaxEvents
    /\ clock' = now
    /\ LET s == ApplyEvents([m |-> messages, u |-> uidCounter], evs, sends[i].aid, now)
       IN  messages' = s.m /\ uidCounter' = s.u
    /\ sends' = [sends EXCEPT ![i].n = @ + Len(evs),
                              ![i].newMsgs = @ \o Tracked(evs),
                              ![i].made = @ \o SelectSeq(Types(evs), LAMBDA t : t # "text"),
                              ![i].text = @ \o TextOf(evs)]
    /\ UNCHANGED << streaming, seen, deferred, load, greet, writes, pending, rows,
                    mount, prev, respBody, pos, dec, mounted, input >>

\* reader.read() reports done
SendEnd(i) ==
    /\ sends[i].pc = "read"
    /\ Finally(i, messages)

\* getSession throws, the fetch rejects or a read fails
SendFail(i) ==
    /\ sends[i].pc \in { "session", "fetch", "read" }
    /\ Finally(i, Failed(messages, sends[i].aid))

\* ================================================================= reopen
Idle ==
    /\ load = "done"
    /\ \A i \in 1..Len(sends) : sends[i].pc = "done"
    /\ deferred = << >>
    /\ pending = { }

\* the view is closed with nothing in flight and opened again on the same project
Reopen ==
    /\ mount < MaxMounts
    /\ Idle
    /\ mount' = mount + 1
    /\ prev' = messages
    /\ messages' = << >>
    /\ streaming' = FALSE
    /\ seen' = [messages |-> << >>, streaming |-> FALSE]
    /\ load' = "fetch"
    /\ greet' = [id |-> NoId, n |-> 0]
    /\ input' = << >>
    /\ UNCHANGED << deferred, sends, writes, pending, rows, clock, uidCounter,
                    respBody, pos, dec, mounted >>

\* ================================================================ unmount
\* The user navigates away and CanvasPage unmounts. The effect that started loadHistory
\* returns no cleanup and no request is given an abort signal, so the async functions
\* run on; React drops the component's state, the updates still queued and every
\* setState made from then on.
Unmount ==
    /\ mounted
    /\ mounted' = FALSE
    /\ deferred' = << >>
    /\ UNCHANGED << messages, streaming, seen, load, greet, sends, writes, pending, rows,
                    clock, uidCounter, mount, prev, respBody, pos, dec, input >>

\* loadHistory after the unmount: the history fetch resolves, and without rows (or on a
\* failure) the greeting request is opened all the same
AbandonedHistory(failed) ==
    /\ ~mounted
    /\ load = "fetch"
    /\ IF ~failed /\ Len(rows) > 0
       THEN load' = "done" /\ UNCHANGED greet
       ELSE load' = "greeting" /\ greet' = [id |-> Id("msg", clock, 0), n |-> 0]
    /\ UNCHANGED << messages, streaming, seen, deferred, sends, writes, pending, rows,
                    clock, uidCounter, mount, prev, respBody, pos, dec, mounted, input >>

\* the greeting after the unmount: its body is read to the end, the events go to
\* setMessages calls that React drops
AbandonedGreeting(next, evs) ==
    /\ ~mounted
    /\ \/ load = "greeting" /\ next \in { "read", "done" } /\ evs = << >>
       \/ load = "read" /\ next = "read" /\ evs # << >> /\ Delivered + Len(evs) <= MaxEvents
       \/ load = "read" /\ next = "done" /\ evs = << >>
    /\ load' = next
    /\ greet' = [greet EXCEPT !.n = @ + Len(evs)]
    /\ UNCHANGED << messages, streaming, seen, deferred, sends, writes, pending, rows,
                    clock, uidCounter, mount, prev, respBody, pos, dec, mounted, input >>

\* a chunk of a chat stream read after the unmount: trackingHandler still runs, the
\* setMessages calls of handleSSEEvent are dropped, the pushes onto newMsgs are made
AbandonedChunk(i, evs) ==
    /\ ~mounted
    /\ sends[i].pc = "read"
    /\ evs # << >>
    /\ Delivered + Len(evs) <= MaxEvents
    /\ sends' = [sends EXCEPT ![i].n = @ + Len(evs),
                              ![i].newMsgs = @ \o Tracked(evs)]
    /\ UNCHANGED << messages, streaming, seen, deferred, load, greet, writes, pending, rows,
                    clock, uidCounter, mount, prev, respBody, pos, dec, mounted, input >>

\* the catch and finally of invocation i after the unmount (the request has no body, the
\* stream ends, or something throws): the setState calls are dropped, and whether React
\* still runs the updater that writes the assistant entry is `ran`; the loop over newMsgs
\* issues its writes
AbandonedFinally(i, ran) ==
    /\ ~mounted
    /\ sends[i].pc \in { "session", "fetch", "read" }
    /\ sends' = [sends EXCEPT ![i].pc = "done", ![i].newMsgs = << >>, ![i].history = << >>]
    /\ Issue(Logged((IF ran THEN AssistantWrite(messages, sends[i].aid) ELSE << >>)
                        \o sends[i].newMsgs, i))
    /\ UNCHANGED << messages, streaming, seen, deferred, load, greet, rows,
                    clock, uidCounter, mount, prev, respBody, pos, dec, mounted, input >>

\* ========================================================== specification

\* what an earlier session on the project left in the store: nothing, or the rows of
\* one exchange ("hi" answered by an artifact and the text "a")
StoredHistories ==
    { << >>,
      << [id |-> 1, msg_type |-> "user", content |-> Some(<< "hi" >>), metadata |-> NoMeta,
          by |-> 0],
         [id |-> 2, msg_type |-> "paper_artifact", content |-> None,
          metadata |-> [chips |-> None, paper |-> Some("P1")], by |-> 0],
         [id |-> 3, msg_type |-> "assistant", content |-> Some(<< "a" >>), metadata |-> NoMeta,
          by |-> 0] >> }

\* the state after the first render of CanvasPage, loadHistory awaiting its fetch
Mounted ==
    /\ messages = << >>
    /\ streaming = FALSE
    /\ seen = [messages |-> << >>, streaming |-> FALSE]
    /\ deferred = << >>
    /\ load = "fetch"
    /\ greet = [id |-> NoId, n |-> 0]
    /\ sends = << >>
    /\ writes = << >>
    /\ pending = { }
    /\ clock = 0
    /\ uidCounter = 0
    /\ mount = 1
    /\ prev = << >>
    /\ pos = 0
    /\ dec = Fresh
    /\ mounted = TRUE
    /\ input = << >>

Init == Mounted /\ rows \in StoredHistories /\ respBody = << >>

Chunks == SeqsUpTo(Events, MaxChunk)
\* Date.now() never runs backwards
Now == clock..MaxClock

Next ==
    \/ \E text \in UserTexts, now \in Now : Len(sends) < SpecSends /\ sendMessage(text, now)
    \/ Render
    \/ LoadHistoryRestored
    \/ \E failed \in BOOLEAN, now \in Now : LoadHistoryNone(failed, now)
    \/ \E body \in BOOLEAN : GreetingResponse(body)
    \/ \E evs \in Chunks, now \in Now :
           Delivered + Len(evs) <= SpecEvents /\ GreetingChunk(evs, now)
    \/ GreetingEnd
    \/ GreetingFail
    \/ \E i \in 1..Len(sends) : SendSession(i)
    \/ \E i \in 1..Len(sends), body \in BOOLEAN : SendResponse(i, body)
    \/ \E i \in 1..Len(sends), evs \in Chunks, now \in Now :
           Delivered + Len(evs) <= SpecEvents /\ SendChunk(i, evs, now)
    \/ \E i \in 1..Len(sends) : SendEnd(i)
    \/ \E i \in 1..Len(sends) : SendFail(i)

Spec == Init /\ [][Next]_vars

\* ------------------------------------------------- the session and its store
\* a new project: the store is empty, the writes of the session reach it in any order
\* (or fail), and the view is closed and opened again; here the clock stands still and
\* the greeting stream carries no event
StoreInit == Mounted /\ rows = << >> /\ respBody = << >>

StoreNext ==
    \/ Len(sends) < StoreSends /\ sendMessage(<< "hi" >>, clock)
    \/ Render
    \/ \E failed \in BOOLEAN : LoadHistoryNone(failed, clock)
    \/ LoadHistoryRestored
    \/ \E body \in BOOLEAN : GreetingResponse(body)
    \/ GreetingEnd
    \/ GreetingFail
    \/ \E i \in 1..Len(sends) : SendSession(i)
    \/ \E i \in 1..Len(sends), body \in BOOLEAN : SendResponse(i, body)
    \/ \E i \in 1..Len(sends), evs \in Chunks :
           Delivered + Len(evs) <= SpecEvents /\ SendChunk(i, evs, clock)
    \/ \E i \in 1..Len(sends) : SendEnd(i)
    \/ \E i \in 1..Len(sends) : SendFail(i)
    \/ \E w \in pending : PersistArrive(w)
    \/ \E w \in pending : PersistFail(w)
    \/ Reopen

StoreSpec == StoreInit /\ [][StoreNext]_vars

\* ------------------------------------------------------ the decoder alone
DecodeInit ==
    /\ Mounted /\ rows = << >>
    /\ respBody \in Bodies

DecodeNext ==
    \/ \E k \in 1..(Len(respBody) - pos) : ReadChunk(k)
    \/ ReadDone

DecodeSpec == DecodeInit /\ [][DecodeNext]_vars

\* ------------------------------------------- the session with fair transports
\* every request that is open is eventually answered, ended or failed
Transport ==
    \/ \E failed \in BOOLEAN : LoadHistoryNone(failed, clock)
    \/ LoadHistoryRestored
    \/ \E body \in BOOLEAN : GreetingResponse(body)
    \/ GreetingEnd
    \/ GreetingFail
    \/ \E i \in 1..Len(sends) : SendSession(i)
    \/ \E i \in 1..Len(sends), body \in BOOLEAN : SendResponse(i, body)
    \/ \E i \in 1..Len(sends) : SendEnd(i)
    \/ \E i \in 1..Len(sends) : SendFail(i)

\* the steps of such a run: the clock stands still and every chunk carries one event
FairNext ==
    \/ \E text \in UserTexts : Len(sends) < SpecSends /\ sendMessage(text, clock)
    \/ Render
    \/ LoadHistoryRestored
    \/ \E failed \in BOOLEAN : LoadHistoryNone(failed, clock)
    \/ \E body \in BOOLEAN : GreetingResponse(body)
    \/ \E e \in Events : Delivered < FairEvents /\ GreetingChunk(<< e >>, clock)
    \/ GreetingEnd
    \/ GreetingFail
    \/ \E i \in 1..Len(sends) : SendSession(i)
    \/ \E i \in 1..Len(sends), body \in BOOLEAN : SendResponse(i, body)
    \/ \E i \in 1..Len(sends), e \in Events : Delivered < FairEvents /\ SendChunk(i, << e >>, clock)
    \/ \E i \in 1..Len(sends) : SendEnd(i)
    \/ \E i \in 1..Len(sends) : SendFail(i)

FairSpec == Init /\ [][FairNext]_vars /\ WF_vars(Transport)

\* ------------------------------------------------- the store out of reach
\* a new project whose store cannot be reached: every write of the session stays in
\* flight until it fails; the clock stands still, the greeting stream carries no event
\* and every chunk of a chat stream carries one event
PersistNext ==
    \/ Len(sends) < StoreSends /\ sendMessage(<< "hi" >>, clock)
    \/ Render
    \/ \E failed \in BOOLEAN : LoadHistoryNone(failed, clock)
    \/ \E body \in BOOLEAN : GreetingResponse(body)
    \/ GreetingEnd
    \/ GreetingFail
    \/ \E i \in 1..Len(sends) : SendSession(i)
    \/ \E i \in 1..Len(sends), body \in BOOLEAN : SendResponse(i, body)
    \/ \E i \in 1..Len(sends), e \in Events : Delivered < FairEvents /\ SendChunk(i, << e >>, clock)
    \/ \E i \in 1..Len(sends) : SendEnd(i)
    \/ \E i \in 1..Len(sends) : SendFail(i)
    \/ \E w \in pending : PersistFail(w)

PersistSpec == StoreInit /\ [][PersistNext]_vars

\* ------------------------------------------------- the view that is left
\* the session until the user navigates away, and what goes on after that; the clock
\* stands still
UnmountNext ==
    \/ mounted /\ \E text \in UserTexts : Len(sends) < SpecSends /\ sendMessage(text, clock)
    \/ mounted /\ Render
    \/ mounted /\ LoadHistoryRestored
    \/ mounted /\ \E failed \in BOOLEAN : LoadHistoryNone(failed, clock)
    \/ mounted /\ \E body \in BOOLEAN : GreetingResponse(body)
    \/ mounted /\ \E evs \in Chunks :
                      Delivered + Len(evs) <= SpecEvents /\ GreetingChunk(evs, clock)
    \/ mounted /\ GreetingEnd
    \/ mounted /\ GreetingFail
    \/ \E i \in 1..Len(sends) : SendSession(i)
    \/ \E i \in 1..Len(sends) : SendResponse(i, TRUE)
    \/ mounted /\ \E i \in 1..Len(sends) : SendResponse(i, FALSE)
    \/ mounted /\ \E i \in 1..Len(sends), evs \in Chunks :
                      Delivered + Len(evs) <= SpecEvents /\ SendChunk(i, evs, clock)
    \/ mounted /\ \E i \in 1..Len(sends) : SendEnd(i)
    \/ mounted /\ \E i \in 1..Len(sends) : SendFail(i)
    \/ Unmount
    \/ \E failed \in BOOLEAN : AbandonedHistory(failed)
    \/ \E next \in { "read", "done" }, evs \in Chunks :
           Delivered + Len(evs) <= SpecEvents /\ AbandonedGreeting(next, evs)
    \/ \E i \in 1..Len(sends), evs \in Chunks :
           Delivered + Len(evs) <= SpecEvents /\ AbandonedChunk(i, evs)
    \/ \E i \in 1..Len(sends), ran \in BOOLEAN : AbandonedFinally(i, ran)

UnmountSpec == Init /\ [][UnmountNext]_vars

\* ------------------------------------------- a stored history opened again
\* the rows the history fetch can return: sequence ids 1, 2, ..., and for each row any
\* of the kinds, with the content or payload of its kind
StoredRow(id, kind) ==
    [id |-> id, msg_type |-> kind,
     content |-> CASE kind = "user" -> Some(<< "hi" >>)
                   [] kind = "assistant" -> Some(<< "a" >>)
                   [] kind = "status" -> Some(<< "s" >>)
                   [] kind = "error" -> Some(<< "e" >>)
                   [] OTHER -> None,
     metadata |-> [chips |-> IF kind = "chips" THEN Some(<< "c1", "c2" >>) ELSE None,
                   paper |-> IF kind = "paper_artifact" THEN Some("P1") ELSE None],
     by |-> 0]

StoredRowLists ==
    UNION { { [k \in 1..n |-> StoredRow(k, f[k])] :
                f \in [1..n -> { "user", "assistant", "status", "paper_artifact", "chips", "error" }] } :
            n \in 1..MaxRows }

\* nothing is sent: the view restores the rows, is closed, and is opened again
RemountInit == Mounted /\ rows \in StoredRowLists /\ respBody = << >>

RemountNext ==
    \/ LoadHistoryRestored
    \/ Render
    \/ Reopen

RemountSpec == RemountInit /\ [][RemountNext]_vars

\* ------------------------------------------------- one scripted exchange
\* the stream of a chat exchange emits a status event, an artifact event and then text
\* events ("a", "b", "a", ...), one per chunk, and may end once the first two are out;
\* the greeting stream carries no event and the clock stands still
Script ==
    << Event("status", Some(<< "s" >>), None, None),
       Event("paper_artifact", None, None, Some("P1")) >>
      \o [k \in 1..(MaxEvents - 2) |->
             Event("text", Some(IF k % 2 = 1 THEN << "a" >> ELSE << "b" >>), None, None)]

ScenarioNext ==
    \/ Len(sends) < SpecSends /\ sendMessage(<< "hi" >>, clock)
    \/ Render
    \/ LoadHistoryRestored
    \/ \E failed \in BOOLEAN : LoadHistoryNone(failed, clock)
    \/ \E body \in BOOLEAN : GreetingResponse(body)
    \/ GreetingEnd
    \/ GreetingFail
    \/ \E i \in 1..Len(sends) : SendSession(i)
    \/ \E i \in 1..Len(sends), body \in BOOLEAN : SendResponse(i, body)
    \/ \E i \in 1..Len(sends) :
           sends[i].n < Len(Script) /\ SendChunk(i, << Script[sends[i].n + 1] >>, clock)
    \/ \E i \in 1..Len(sends) : sends[i].n >= 2 /\ SendEnd(i)
    \/ \E i \in 1..Len(sends) : SendFail(i)

ScenarioSpec == Init /\ [][ScenarioNext]_vars

\* ------------------------------------------- an exchange with a soft error
\* the stream of a chat exchange emits text, then an error event, then text again, one
\* event per chunk, and may end at any point; the greeting stream carries no event and
\* the clock stands still
ErrorScript ==
    << Event("text", Some(<< "a" >>), None, None),
       Event("error", Some(<< "e" >>), None, None),
       Event("text", Some(<< "b" >>), None, None) >>

SoftErrorNext ==
    \/ Len(sends) < SpecSends /\ sendMessage(<< "hi" >>, clock)
    \/ Render
    \/ LoadHistoryRestored
    \/ \E failed \in BOOLEAN : LoadHistoryNone(failed, clock)
    \/ \E body \in BOOLEAN : GreetingResponse(body)
    \/ GreetingEnd
    \/ GreetingFail
    \/ \E i \in 1..Len(sends) : SendSession(i)
    \/ \E i \in 1..Len(sends), body \in BOOLEAN : SendResponse(i, body)
    \/ \E i \in 1..Len(sends) :
           sends[i].n < Len(ErrorScript) /\ SendChunk(i, << ErrorScript[sends[i].n + 1] >>, clock)
    \/ \E i \in 1..Len(sends) : SendEnd(i)
    \/ \E i \in 1..Len(sends) : SendFail(i)

SoftErrorSpec == Init /\ [][SoftErrorNext]_vars

\* --------------------------------------- payloads through the store and back
\* a new project: in the first session a message is sent once the history load is over
\* and the writes made before have reached the store; the stream of the exchange emits
\* a suggestions event and an artifact event, one per chunk, and may end or fail at any
\* point; every write reaches the store, in any order, and the view is closed and
\* opened again; the greeting stream carries no event and the clock stands still
PayloadScript ==
    << Event("suggestion_chips", None, Some(<< "c2", "c1" >>), None),
       Event("paper_artifact", None, None, Some("P2")) >>

PayloadNext ==
    \/ /\ mount = 1 /\ load = "done" /\ pending = { } /\ Len(sends) < StoreSends
       /\ sendMessage(<< "hi" >>, clock)
    \/ Render
    \/ \E failed \in BOOLEAN : LoadHistoryNone(failed, clock)
    \/ LoadHistoryRestored
    \/ \E body \in BOOLEAN : GreetingResponse(body)
    \/ GreetingEnd
    \/ GreetingFail
    \/ \E i \in 1..Len(sends) : SendSession(i)
    \/ \E i \in 1..Len(sends), body \in BOOLEAN : SendResponse(i, body)
    \/ \E i \in 1..Len(sends) :
           sends[i].n < Len(PayloadScript) /\ SendChunk(i, << PayloadScript[sends[i].n + 1] >>, clock)
    \/ \E i \in 1..Len(sends) : SendEnd(i)
    \/ \E i \in 1..Len(sends) : SendFail(i)
    \/ \E w \in pending : PersistArrive(w)
    \/ Reopen

PayloadSpec == StoreInit /\ [][PayloadNext]_vars

\* --------------------------------------------- two sends, streams without events
\* the session with up to MaxSends calls passing the guard; the streams end or fail
\* before they carry an event
SendsNext ==
    \/ \E text \in UserTexts, now \in Now : sendMessage(text, now)
    \/ Render
    \/ LoadHistoryRestored
    \/ \E failed \in BOOLEAN, now \in Now : LoadHistoryNone(failed, now)
    \/ \E body \in BOOLEAN : GreetingResponse(body)
    \/ GreetingEnd
    \/ GreetingFail
    \/ \E i \in 1..Len(sends) : SendSession(i)
    \/ \E i \in 1..Len(sends), body \in BOOLEAN : SendResponse(i, body)
    \/ \E i \in 1..Len(sends) : SendEnd(i)
    \/ \E i \in 1..Len(sends) : SendFail(i)

SendsSpec == Init /\ [][SendsNext]_vars

\* ------------------------------------------------------- the message box
\* the user types into the message box and sends a text (the box's, or a chip's), blank
\* ones in any state; the streams carry no event and the clock stands still
InputNext ==
    \/ \E value \in UserTexts : setInput(value)
    \/ \E text \in UserTexts :
           (Trimmed(text) = << >> \/ Len(sends) < StoreSends) /\ sendMessage(text, clock)
    \/ Render
    \/ LoadHistoryRestored
    \/ \E failed \in BOOLEAN : LoadHistoryNone(failed, clock)
    \/ \E body \in BOOLEAN : GreetingResponse(body)
    \/ GreetingEnd
    \/ GreetingFail
    \/ \E i \in 1..Len(sends) : SendSession(i)
    \/ \E i \in 1..Len(sends), body \in BOOLEAN : SendResponse(i, body)
    \/ \E i \in 1..Len(sends) : SendEnd(i)
    \/ \E i \in 1..Len(sends) : SendFail(i)

InputSpec == Init /\ [][InputNext]_vars

\* =================================================================== claims
Ids(ms) == [k \in 1..Len(ms) |-> ms[k].id]

RECURSIVE IsSubsequence(_, _)
IsSubsequence(a, b) ==
    IF a = << >> THEN TRUE
    ELSE IF b = << >> THEN FALSE
    ELSE IF Head(a) = Head(b) THEN IsSubsequence(Tail(a), Tail(b))
    ELSE IsSubsequence(a, Tail(b))

Count(seq, P(_)) == Len(SelectSeq(seq, P))

\* C1: a sendMessage call made while streaming is true changes nothing: no entry is
\* appended, no invocation (and so no request) is started, no write is issued.
SendWhileStreamingIsNoOp ==
    [][(streaming /\ \E text \in UserTexts, now \in Now : sendMessage(text, now))
          => UNCHANGED << messages, sends, writes >>]_vars

\* the transport streams that are open: the greeting request from its fetch to the end
\* of its body, and each chat request from its fetch to the end of its body
OpenStreams ==
    (IF load \in { "greeting", "read" } THEN 1 ELSE 0)
        + Cardinality({ i \in 1..Len(sends) : sends[i].pc \in { "fetch", "read" } })

\* C2: at most one transport stream, greeting or chat, is open at any time.
AtMostOneStream == OpenStreams <= 1

\* the failure of exchange i is shown: one entry carries the exchange's assistant id, it
\* is an error entry with the fixed text, and the flag is down
FailureShown(i) ==
    /\ ~streaming
    /\ Count(messages, LAMBDA m : m.id = sends[i].aid) = 1
    /\ \A k \in 1..Len(messages) : messages[k].id = sends[i].aid =>
           messages[k].type = "error" /\ messages[k].content = Some(FailedText)

\* C7: when the transport of exchange i fails, the conversation then holds exactly one
\* entry for the exchange's assistant id, it is an error entry with the fixed text, and
\* streaming is false.
TransportFailureShown ==
    [][\A i \in 1..Len(sends) : SendFail(i) => FailureShown(i)']_vars

\* C8: the conversation is append-only: every step keeps the entries it had, in the
\* order they had.
AppendOnly == [][IsSubsequence(Ids(messages), Ids(messages'))]_vars

\* C9: the ids of the entries of the conversation are pairwise distinct.
UniqueIds ==
    \A j, k \in 1..Len(messages) : j # k => messages[j].id # messages[k].id

\* the kinds of the entries exchange i produced, in the order they were appended, and
\* the writes issued for it
KindOf(eventType) == IF eventType = "suggestion_chips" THEN "chips" ELSE eventType
Produced(i) ==
    << "user", "assistant" >> \o [k \in 1..Len(sends[i].made) |-> KindOf(sends[i].made[k])]
WrittenFor(i) == SelectSeq(writes, LAMBDA w : w.by = i)

\* C10: once the stream of exchange i has ended and React has rendered, the writes issued
\* for the exchange are one per entry it produced: one user, one assistant, and one for
\* each status, artifact, suggestions and error entry.
OneWritePerEntry ==
    \A i \in 1..Len(sends) :
        (sends[i].pc = "done" /\ deferred = << >>) =>
            \A kind \in { "user", "assistant", "status", "paper_artifact", "chips", "error" } :
                Count(WrittenFor(i), LAMBDA w : w.type = kind)
                    = Count(Produced(i), LAMBDA t : t = kind)

\* C5: chunk-boundary invisibility. When the body has been read to its end, in whatever
\* chunks, the handler has received the events it receives when the whole body comes
\* as one chunk.
ChunkBoundariesInvisible == dec.done => dec.out = Feed(Fresh, respBody).out

\* a body with two frames was read in chunks that ended inside a character and inside a
\* line, and both events were delivered
ChunkedBodyDecoded ==
    /\ dec.done
    /\ dec.cut = { "char", "line" }
    /\ Len(dec.out) = 2
    /\ dec.out[1] = [json |-> "string", value |-> << "E9" >>]

\* C6: whenever streaming is true it becomes false again, given that the transports
\* end or fail.
StreamingClears == streaming ~> ~streaming

\* a chat exchange has failed and the flag is down
ClearedAfterFailure ==
    /\ ~streaming
    /\ \E i \in 1..Len(sends) : sends[i].pc = "done"
    /\ \E k \in 1..Len(messages) : messages[k].type = "error" /\ messages[k].content = Some(FailedText)

\* what a conversation shows: its entries without their ids
Shape(ms) ==
    [k \in 1..Len(ms) |-> [type |-> ms[k].type, content |-> ms[k].content,
                           chips |-> ms[k].chips, paper |-> ms[k].paper]]
\* every write that was issued has reached the store
AllWritesStored == pending = { } /\ deferred = << >> /\ Len(rows) = Len(writes)
\* the view was opened again and nothing has been sent in it yet
JustOpened == mount > 1 /\ messages = << >> /\ seen.messages = << >>

\* C3: when the view is opened again on a store that holds every write of the earlier
\* session, the rows restored are, kind by kind and with the same texts and payloads, the
\* conversation that session showed when its last stream ended.
RehydrationMatchesLive ==
    [][(JustOpened /\ AllWritesStored /\ LoadHistoryRestored) => Shape(messages') = Shape(prev)]_vars

\* the kinds of the rows stored for exchange i, in sequence order
RowKinds(i) ==
    LET mine == SelectSeq(rows, LAMBDA r : r.by = i)
    IN  [k \in 1..Len(mine) |-> mine[k].msg_type]

\* C4: the rows stored for an exchange are in the order its entries have in the live
\* conversation: the user entry, the assistant entry, then the entries of the stream.
RowsKeepLiveOrder ==
    \A i \in 1..Len(sends) : IsSubsequence(RowKinds(i), Produced(i))

\* C11: a write of kind assistant is issued for an exchange only once its stream has
\* ended, and the text it carries is the whole of the text the stream's text events
\* brought, never a part of it.
AssistantWrittenWhole ==
    \A k \in 1..Len(writes) :
        (writes[k].type = "assistant" /\ writes[k].by > 0) =>
            /\ sends[writes[k].by].pc = "done"
            /\ writes[k].content = Some(sends[writes[k].by].text)

\* C12: the write for a user, status, artifact or suggestions entry is issued in the
\* step that appends the entry: at every moment the writes issued for an exchange count,
\* for each of these kinds, as many as the entries of that kind the exchange has produced.
WrittenOnAppend ==
    \A i \in 1..Len(sends) :
        \A kind \in { "user", "status", "paper_artifact", "chips" } :
            Count(WrittenFor(i), LAMBDA w : w.type = kind)
                = Count(Produced(i), LAMBDA t : t = kind)

\* C13: when the greeting request fails, whatever events it had delivered, the
\* conversation is then exactly two entries, an assistant entry with the default greeting
\* and a suggestions entry with the four fixed chips, none of them an error entry, and
\* streaming is false.
GreetingFallbackShown ==
    [][GreetingFail =>
         /\ Len(messages') = 2
         /\ messages'[1].type = "assistant" /\ messages'[1].content = Some(DefaultGreeting)
         /\ messages'[2].type = "chips" /\ messages'[2].chips = Some(DefaultChips)
         /\ Len(DefaultChips) = 4
         /\ ~streaming']_vars

\* the greeting failed after an event of it had appended an entry, and the fallback is
\* what the conversation shows
FallbackAfterEvents ==
    /\ load = "done" /\ greet.n > 0 /\ uidCounter > 0
    /\ Len(messages) = 2 /\ messages[1].content = Some(DefaultGreeting)
    /\ ~streaming

\* the entry the history load makes of row r
EntryOfRow(r) ==
    [id |-> Id("db", r.id, 0), type |-> r.msg_type, content |-> r.content,
     chips |-> IF r.msg_type = "chips" THEN r.metadata.chips ELSE None,
     paper |-> IF r.msg_type = "paper_artifact" THEN r.metadata.paper ELSE None]

\* C14: when the history fetch returns rows, the conversation becomes exactly the rows
\* mapped in order, no greeting stream is opened, the load leaves streaming as it is, and
\* with nothing sent yet the session is idle: streaming is false and a send is accepted.
RowsPathIdle ==
    [][LoadHistoryRestored =>
         /\ Len(messages') = Len(rows)
         /\ \A k \in 1..Len(rows) : messages'[k] = EntryOfRow(rows[k])
         /\ load' = "done" /\ greet' = greet
         /\ streaming' = streaming
         /\ (sends = << >> => ~streaming' /\ ~seen'.streaming)]_vars

\* the stored exchange has been restored and nothing was sent
RowsRestoredIdle ==
    /\ load = "done" /\ greet.id = NoId /\ sends = << >>
    /\ Len(messages) = 3 /\ messages[2].type = "paper_artifact" /\ messages[2].paper = Some("P1")
    /\ messages[3].content = Some(<< "a" >>)
    /\ ~streaming

\* writes of this session that have failed: no longer in flight and without a row
FailedWrites ==
    (Len(writes) - Cardinality(pending)) - Cardinality({ k \in 1..Len(rows) : rows[k].by > 0 })

\* C15: a write that fails changes neither the conversation nor the flag and reaches no
\* caller: no invocation changes its position and nothing is rendered or queued. What
\* the steps of the streams and the clearing of the flag depend on is left as it was, so
\* the failure holds none of them back.
PersistFailureContained ==
    [][\A w \in pending : PersistFail(w) =>
          UNCHANGED << messages, streaming, seen, deferred, load, greet, sends, writes, rows >>]_vars

\* the user write failed while the stream was open, an event of the stream was applied
\* and the exchange ended with the flag down
StreamEndedDespiteFailure ==
    /\ FailedWrites > 0
    /\ Len(sends) = 1 /\ sends[1].pc = "done" /\ sends[1].n > 0
    /\ ~streaming

\* C16: once the view is left, no further chunk of a stream is read, no event changes
\* the conversation, and no write is issued.
NothingAfterUnmount ==
    [][~mounted =>
         /\ \A i \in 1..Len(sends) : sends'[i].n = sends[i].n
         /\ greet'.n = greet.n
         /\ messages' = messages
         /\ writes' = writes]_vars

\* the ids the text events of the streams in flight go to, and the assistant entries of
\* the conversation that carry one of them
Targets ==
    (IF load \in { "greeting", "read" } THEN { greet.id } ELSE { })
        \cup { sends[i].aid : i \in { j \in 1..Len(sends) : sends[j].pc \in { "session", "fetch", "read" } } }
OpenEntries ==
    { k \in 1..Len(messages) : messages[k].type = "assistant" /\ messages[k].id \in Targets }

\* C17: while streaming is true the conversation holds exactly one open assistant entry.
OneOpenAssistant == streaming => Cardinality(OpenEntries) = 1

\* C18: when the stream of an exchange has emitted a status event, an artifact event and
\* then text events and ends, the conversation is what it was when the message was sent
\* plus the user entry and three more entries, one status, one artifact and one
\* assistant, and the assistant entry's text is the text events' contents in order.
ScenarioGain ==
    [][\A i \in 1..Len(sends) :
         (SendEnd(i) /\ sends[i].made = << "status", "paper_artifact" >>) =>
            LET at == sends[i].at
                gained == SubSeq(messages', at + 2, Len(messages'))
            IN  /\ Len(messages') = at + 4
                /\ messages'[at + 1].type = "user"
                /\ \A kind \in { "status", "paper_artifact", "assistant" } :
                       Count(gained, LAMBDA m : m.type = kind) = 1
                /\ \A k \in 1..Len(gained) :
                       gained[k].type = "assistant" => gained[k].content = Some(sends[i].text)]_vars

NoBlankAssistant ==
    (~streaming /\ OpenStreams = 0 /\ \A i \in 1..Len(sends) : sends[i].pc = "done") =>
        \A k \in 1..Len(messages) : messages[k].type = "assistant" => Truthy(messages[k].content)

\* a text that is empty or made of whitespace only
Blank(text) == \A k \in 1..Len(text) : text[k] \in Whitespace

\* C21: a sendMessage call whose text is empty or whitespace only changes nothing, in
\* whatever state it is made: the conversation, the flag and the message box stay as
\* they are, no invocation (and so no request) is started and no write is issued or queued.
BlankRejected ==
    [][\A text \in UserTexts :
         (Blank(text) /\ sendMessage(text, clock)) =>
             UNCHANGED << messages, streaming, input, sends, writes, pending, deferred >>]_vars

\* a blank draft sits in the message box of a session that is idle after its greeting:
\* sending it is turned down by the test of the text alone, and nothing was sent or written
BlankDraftIdle ==
    /\ input = << " " >>
    /\ ~streaming /\ ~seen.streaming /\ load = "done"
    /\ Len(messages) > 0 /\ sends = << >> /\ writes = << >>

\* the text of one line of a body, given as its bytes
LineText(bytes) ==
    LET chars == Utf8(<< >>, Append(bytes, "\n"), << >>).chars
    IN  SubSeq(chars, 1, Len(chars) - 1)
\* a line that has the prefix and whose payload parses
IsFrame(bytes) ==
    /\ StartsWith(LineText(bytes), Prefix)
    /\ JsonParse(SubSeq(LineText(bytes), Len(Prefix) + 1, Len(LineText(bytes)))) # None
\* a body without its terminated lines that are no frames; what follows the last newline
\* is kept as it is
RECURSIVE Terminated(_)
Terminated(ls) == IF ls = << >> THEN << >> ELSE Append(Head(ls), "\n") \o Terminated(Tail(ls))
Cleaned(body) ==
    LET ls == SplitLines(body, << >>, << >>)
    IN  Terminated(SelectSeq(SubSeq(ls, 1, Len(ls) - 1), IsFrame)) \o ls[Len(ls)]

\* C22: lines without the 'data: ' prefix and lines whose payload is not valid JSON
\* give no event and do not stop the decoding: when the body has been read to its end,
\* the handler has received the events it receives from the same body with all such
\* lines removed.
MalformedLinesInvisible == dec.done => dec.out = Feed(Fresh, Cleaned(respBody)).out

\* a body with a comment line, then a prefixed line that is not JSON, then a frame, was
\* read in more than one chunk and the frame's event was delivered
FrameAfterMalformedLines ==
    /\ dec.done
    /\ respBody = << ":", "1", "\n" >> \o Prefix \o << "q", "1", "\n" >> \o Prefix \o << "1", "\n" >>
    /\ dec.cut # { }
    /\ dec.out = << [json |-> "number", value |-> << "1" >>] >>

\* a body up to its last newline
UpToLastNewline(body) ==
    LET ls == SplitLines(body, << >>, << >>)
    IN  Terminated(SubSeq(ls, 1, Len(ls) - 1))

\* C23: what the buffer holds when the transport signals the end of the stream, a line
\* without its newline, is discarded: the events delivered are those of the body up to
\* its last newline, even when the line left over is a complete, valid frame.
TrailingLineDiscarded == dec.done => dec.out = Feed(Fresh, UpToLastNewline(respBody)).out

\* the stream ended after one frame was delivered, with a second complete and valid
\* frame, lacking only its newline, still in the buffer
ValidFrameLeftInBuffer ==
    /\ dec.done
    /\ Len(dec.out) = 1
    /\ StartsWith(dec.buffer, Prefix)
    /\ JsonParse(SubSeq(dec.buffer, Len(Prefix) + 1, Len(dec.buffer))) # None

\* exchange i reads one event in this step, and it is a text event carrying `delta`
ReadsText(i, delta) ==
    /\ i <= Len(sends') /\ sends'[i].n = sends[i].n + 1
    /\ sends'[i].made = sends[i].made
    /\ sends'[i].text = sends[i].text \o delta

\* C24: a text event changes nothing but the text of the entry that carries the stream's
\* assistant id, to which it appends its content: the entries are as many as before, in
\* the same order, every other entry is as it was, and when no entry carries the id the
\* conversation is unchanged and the stream goes on being read.
TextEventEffect ==
    [][\A i \in 1..Len(sends), delta \in { << "a" >>, << "b" >> } :
         ReadsText(i, delta) =>
            /\ Len(messages') = Len(messages)
            /\ \A k \in 1..Len(messages) :
                   IF messages[k].id = sends[i].aid
                   THEN /\ messages'[k].content = Some(OrEmpty(messages[k].content) \o delta)
                        /\ messages'[k].id = messages[k].id /\ messages'[k].type = messages[k].type
                        /\ messages'[k].chips = messages[k].chips
                        /\ messages'[k].paper = messages[k].paper
                   ELSE messages'[k] = messages[k]
            /\ ((\A k \in 1..Len(messages) : messages[k].id # sends[i].aid) => messages' = messages)
            /\ sends'[i].pc = "read"]_vars

\* the stream of an exchange has delivered text while no entry of the conversation carries
\* its assistant id (the history load has replaced the conversation), and is still read
TextWithoutEntry ==
    \E i \in 1..Len(sends) :
        /\ sends[i].pc = "read" /\ sends[i].text # << >>
        /\ Len(messages) > 0
        /\ \A k \in 1..Len(messages) : messages[k].id # sends[i].aid

\* exchange i reads one event in this step, and it is an error event
ReadsError(i) ==
    /\ i <= Len(sends') /\ sends'[i].n = sends[i].n + 1
    /\ sends'[i].made = Append(sends[i].made, "error")

\* C25: an error event read on an open stream appends one error entry with the event's
\* content and ends nothing: the flag keeps its value, every entry there was (the
\* assistant entry with its kind and text among them) is as it was, the stream is still
\* read, and a text event that follows is appended to the assistant entry.
ErrorEventContinues ==
    [][\A i \in 1..Len(sends) :
         /\ ReadsError(i) =>
               /\ Len(messages') = Len(messages) + 1
               /\ \A k \in 1..Len(messages) : messages'[k] = messages[k]
               /\ messages'[Len(messages')].type = "error"
               /\ messages'[Len(messages')].content = Some(<< "e" >>)
               /\ streaming' = streaming
               /\ sends'[i].pc = "read"
         /\ (ReadsText(i, << "b" >>) /\ sends[i].made = << "error" >>) =>
               \A k \in 1..Len(messages) :
                   messages[k].id = sends[i].aid =>
                       /\ messages'[k].type = messages[k].type
                       /\ messages'[k].content = Some(OrEmpty(messages[k].content) \o << "b" >>)]_vars

\* a stream delivered text, an error event and text again: streaming is true, the stream
\* is still read, the assistant entry holds both texts and the error entry comes after it
TextAfterSoftError ==
    \E i \in 1..Len(sends) :
        /\ sends[i].pc = "read" /\ sends[i].made = << "error" >> /\ sends[i].n = 3
        /\ streaming
        /\ \E j, k \in 1..Len(messages) :
               /\ j < k
               /\ messages[j].id = sends[i].aid /\ messages[j].type = "assistant"
               /\ messages[j].content = Some(<< "a", "b" >>)
               /\ messages[k].type = "error" /\ messages[k].content = Some(<< "e" >>)

\* C26: the request a sendMessage call opens carries the new text and, as history, one
\* { role, content } item for every user and assistant entry the conversation held
\* before the call, in conversation order, and none for the entries of other kinds
\* (for a call made while streaming is false, which is one the guard is meant to accept).
HistoryCarried ==
    [][(~streaming /\ Len(sends') = Len(sends) + 1) =>
          /\ sends'[Len(sends')].message \in UserTexts
          /\ sends'[Len(sends')].history = History(messages)]_vars

\* entry is what event e, a suggestions or an artifact event, is to come back as
CarriesPayloadOf(entry, e) ==
    /\ entry.type = KindOf(e.type)
    /\ entry.chips = e.chips /\ entry.paper = e.paper
    /\ entry.content = None

\* C27: payload round trip. When the rows are restored with every write of a finished
\* exchange in the store, the suggestions and artifact entries restored from the
\* exchange's rows are as many as the suggestions and artifact events its stream
\* delivered, and each event comes back as an entry of its kind that carries the event's
\* chip list, in its order, or its paper, and no text.
PayloadRoundTrip ==
    [][LoadHistoryRestored =>
         \A i \in 1..Len(sends) :
             (sends[i].pc = "done" /\ AllWritesStored) =>
                 LET back == { k \in 1..Len(rows) :
                                 /\ rows[k].by = i
                                 /\ messages'[k].type \in { "chips", "paper_artifact" } }
                 IN  /\ Cardinality(back) = sends[i].n
                     /\ \A e \in 1..sends[i].n :
                            \E k \in back : CarriesPayloadOf(messages'[k], PayloadScript[e])]_vars

\* the view was opened again and the rows of an exchange whose stream delivered both
\* events are restored: a suggestions entry with the chips in their order and an
\* artifact entry with the paper
PayloadsRestored ==
    /\ mount = 2 /\ load = "done" /\ sends # << >> /\ sends[1].n = 2
    /\ \E j, k \in 1..Len(messages) :
           /\ messages[j].id.p = "db" /\ messages[j].type = "chips"
           /\ messages[j].chips = Some(<< "c2", "c1" >>) /\ messages[j].content = None
           /\ messages[k].id.p = "db" /\ messages[k].type = "paper_artifact"
           /\ messages[k].paper = Some("P2") /\ messages[k].content = None

\* C28: the assistant slot of an exchange is written under the kind its entry has in
\* the conversation when the stream ends: once a transport failure has made the entry
\* an error entry, no write of kind assistant carries the fixed failure text.
FailureNotWrittenAsAssistant ==
    \A k \in 1..Len(writes) :
        writes[k].type = "assistant" => writes[k].content # Some(FailedText)

\* C29: a message sent before the history fetch resolves (the conversation was still
\* empty) is not lost: once the fetch has resolved, with rows, without or with an error,
\* the conversation holds the message's user entry and its assistant entry, and while
\* that entry is an assistant entry its text is the text the stream has delivered.
EarlyMessageKept ==
    \A i \in 1..Len(sends) :
        (sends[i].at = 0 /\ load # "fetch") =>
            /\ \E k \in 1..Len(messages) :
                   /\ messages[k].id = Id("user", sends[i].aid.t, 0)
                   /\ messages[k].type = "user" /\ messages[k].content = Some(sends[i].message)
            /\ \E k \in 1..Len(messages) :
                   /\ messages[k].id = sends[i].aid
                   /\ messages[k].type = "assistant" => messages[k].content = Some(sends[i].text)

\* C30: the flag follows the transport: streaming is true whenever a greeting or a chat
\* stream of the session is open, so the end of one stream never clears the flag while
\* another is still being read.
FlagTracksTransport == OpenStreams > 0 => streaming

====
